---- MODULE Spec2Model ----
\* A model of r.colors.lc (src/r.colors.lc.py): main() probes two addons,
\* inspects the category labels of the raster and runs exactly one of three
\* colouring strategies.  Text is modelled as sequences of one-character
\* strings so that split / join / format are computed, not assumed.
EXTENDS Integers, Sequences, FiniteSets, TLC

VARIABLES options, raster, colorTable, catLabels, pc, outcome, found1, found2,
          map_class_labels, has_cat_label, random_colors, cellvals,
          colors_str, mapinfo, category_text, bc, cat_proc, calls, msgs,
          replies

vars == <<options, raster, colorTable, catLabels, pc, outcome, found1, found2,
          map_class_labels, has_cat_label, random_colors, cellvals,
          colors_str, mapinfo, category_text, bc, cat_proc, calls, msgs,
          replies>>

\* ---------------------------------------------------------------- bounds
\* longest category listing of a raster
MaxCats == 2
\* largest number of distinct cell values of a raster
MaxN == 42
\* number of seeds of the random generator
NumSeeds == 1

\* ------------------------------------------------------------- constants
colors_to_generate == 40
RandLimit == 255
\* first cell value of the modelled rasters (8, 9, 10, ...: one and two digits)
FirstVal == 8

\* ------------------------------------------------------------ text helpers
Digits == <<"0", "1", "2", "3", "4", "5", "6", "7", "8", "9">>

RECURSIVE Str(_)
\* "%s" / "{}" / "%d" of a non-negative integer: its decimal digits
Str(n) == IF n < 10 THEN <<Digits[n + 1]>>
          ELSE Str(n \div 10) \o <<Digits[(n % 10) + 1]>>

\* c in s
Contains(s, c) == \E i \in 1..Len(s) : s[i] = c

RECURSIVE IndexFrom(_, _, _)
\* index of the first c in s at or after position i, 0 when there is none
IndexFrom(s, c, i) ==
    IF i > Len(s) THEN 0
    ELSE IF s[i] = c THEN i ELSE IndexFrom(s, c, i + 1)

\* index of the first c in s, 0 when there is none
IndexOf(s, c) == IndexFrom(s, c, 1)

\* s.split(c)[0]
SplitFirst(s, c) ==
    LET i == IndexOf(s, c)
    IN  IF i = 0 THEN s ELSE SubSeq(s, 1, i - 1)

RECURSIVE SplitFrom(_, _)
\* the lines of s from position i on
SplitFrom(s, i) ==
    IF i > Len(s) THEN <<>>
    ELSE LET j == IndexFrom(s, "\n", i)
         IN  IF j = 0 THEN <<SubSeq(s, i, Len(s))>>
             ELSE <<SubSeq(s, i, j - 1)>> \o SplitFrom(s, j + 1)

\* s.splitlines()
SplitLines(s) == SplitFrom(s, 1)

RECURSIVE Join(_, _)
\* sep.join(lines)
Join(lines, sep) ==
    IF lines = <<>> THEN <<>>
    ELSE IF Len(lines) = 1 THEN lines[1]
    ELSE lines[1] \o sep \o Join(Tail(lines), sep)

Min(a, b) == IF a < b THEN a ELSE b

\* python slice s[:n]
Slice(s, n) == SubSeq(s, 1, Min(n, Len(s)))

Reverse(s) == [i \in 1..Len(s) |-> s[Len(s) + 1 - i]]

\* ------------------------------------------------------------ the raster
DataTypes == {"CELL", "FCELL", "DCELL"}

\* the text r.stats / r.category print for a cell value
ValStr(datatype, v) ==
    IF datatype = "CELL" THEN Str(v) ELSE Str(v) \o <<".", "5">>

\* a category entry as parse_command keys it: "value<TAB>label" or "value"
Labelled(v) == Str(v) \o <<"\t", "L">> \o Str(v)
Unlabelled(v) == Str(v)

Listings ==
    UNION {{[i \in 1..n |-> IF i \in lab THEN Labelled(FirstVal + i - 1)
                                          ELSE Unlabelled(FirstVal + i - 1)]
             : lab \in SUBSET (1..n)} : n \in 0..MaxCats}

Rasters ==
    {[datatype |-> d, vals |-> [i \in 1..n |-> FirstVal + i - 1], cats |-> l]
       : d \in DataTypes, n \in 0..MaxN, l \in Listings}

\* the orders in which the statistics source may list the distinct values
Orders == {"asc", "desc"}
Ordered(vals, ord) == IF ord = "asc" THEN vals ELSE Reverse(vals)

RECURSIVE StatsText(_, _)
\* output of r.stats -cn separator=pipe: one "value|count" line per value
StatsText(datatype, vals) ==
    IF vals = <<>> THEN <<>>
    ELSE ValStr(datatype, vals[1]) \o <<"|">> \o Str(100 + vals[1]) \o <<"\n">>
         \o StatsText(datatype, Tail(vals))

\* ------------------------------------------------------------ the options
NoOptions == [map |-> "lc", referencemap |-> "", color_column |-> "",
              class_column |-> ""]
AllOptions == [map |-> "lc", referencemap |-> "refmap", color_column |-> "col",
               class_column |-> "cls"]
\* the collective rule: referencemap, class_column, color_column all or none
OptionSets == {NoOptions, AllOptions}

\* ------------------------------------------------------------ bookkeeping
NoProc == [state |-> "none", stdin |-> <<>>, rc |-> 0]

Call(prog, op, params) == [prog |-> prog, op |-> op, params |-> params]
Msg(level, text, arg) == [level |-> level, text |-> text, arg |-> arg]

Init ==
    /\ options \in OptionSets
    /\ raster \in Rasters
    /\ colorTable = [by |-> "none", rules |-> <<>>]
    /\ catLabels = raster.cats
    /\ pc = "find1"
    /\ outcome = "running"
    /\ found1 = "unprobed"
    /\ found2 = "unprobed"
    /\ map_class_labels = <<>>
    /\ has_cat_label = TRUE
    /\ random_colors = <<>>
    /\ cellvals = <<>>
    /\ colors_str = <<>>
    /\ mapinfo = "none"
    /\ category_text = <<>>
    /\ bc = NoProc
    /\ cat_proc = NoProc
    /\ calls = <<>>
    /\ msgs = <<>>
    /\ replies = <<>>

\* ------------------------------------------------------- capability probe
MissingAlways(found) == FALSE
\* "if not grass.find_program(...)"
Missing(found) == ~found

\* lines 79-86
FindVColorsToRast ==
    /\ pc = "find1"
    /\ \E found \in BOOLEAN :
         /\ found1' = IF found THEN "yes" ELSE "no"
         /\ calls' = Append(calls, Call("v.colors.to.rast", "find",
                                        [arg |-> "--help"]))
         /\ IF Missing(found)
            THEN /\ msgs' = Append(msgs, Msg("fatal", "v.colors.to.rast not found", <<>>))
                 /\ outcome' = "fatal"
                 /\ pc' = "done"
            ELSE /\ pc' = "find2"
                 /\ UNCHANGED <<msgs, outcome>>
    /\ UNCHANGED <<options, raster, colorTable, catLabels, found2,
                   map_class_labels, has_cat_label, random_colors, cellvals,
                   colors_str, mapinfo, category_text, bc, cat_proc, replies>>

\* lines 87-94
FindFuzzyLc ==
    /\ pc = "find2"
    /\ \E found \in BOOLEAN :
         /\ found2' = IF found THEN "yes" ELSE "no"
         /\ calls' = Append(calls, Call("r.colors.fuzzy_lc", "find",
                                        [arg |-> "--help"]))
         /\ IF Missing(found)
            THEN /\ msgs' = Append(msgs, Msg("fatal", "r.colors.fuzzy_lc not found", <<>>))
                 /\ outcome' = "fatal"
                 /\ pc' = "done"
            ELSE /\ pc' = "category"
                 /\ UNCHANGED <<msgs, outcome>>
    /\ UNCHANGED <<options, raster, colorTable, catLabels, found1,
                   map_class_labels, has_cat_label, random_colors, cellvals,
                   colors_str, mapinfo, category_text, bc, cat_proc, replies>>

\* ------------------------------------------------ category label inspector
RECURSIVE HasCatLabelFrom(_, _)
\* the loop of lines 100-102, started with has_cat_label = start
HasCatLabelFrom(labels, start) ==
    IF labels = <<>> THEN start
    ELSE HasCatLabelFrom(Tail(labels),
                         IF ~Contains(labels[1], "\t") THEN FALSE ELSE start)

HasCatLabelLast(labels) ==
    IF labels = <<>> THEN TRUE ELSE Contains(labels[Len(labels)], "\t")
HasCatLabelNonEmpty(labels) == labels # <<>> /\ HasCatLabelFrom(labels, TRUE)
\* lines 99-102
HasCatLabel(labels) == HasCatLabelFrom(labels, TRUE)

\* lines 96-102
ParseCategory ==
    /\ pc = "category"
    /\ calls' = Append(calls, Call("r.category", "parse",
                                   [map |-> options.map, separator |-> "tab"]))
    /\ map_class_labels' = catLabels
    /\ has_cat_label' = HasCatLabel(catLabels)
    /\ pc' = "select"
    /\ UNCHANGED <<options, raster, colorTable, catLabels, outcome, found1,
                   found2, random_colors, cellvals, colors_str, mapinfo,
                   category_text, bc, cat_proc, msgs, replies>>

\* -------------------------------------------------------- strategy selector
StrategyLabelFirst(color_column, hcl) ==
    IF hcl THEN "fuzzy" ELSE IF color_column # "" THEN "attribute" ELSE "random"
StrategyNoFuzzy(color_column, hcl) ==
    IF color_column # "" THEN "attribute" ELSE "random"
\* the if / elif / else of lines 104, 113, 116
Strategy(color_column, hcl) ==
    IF color_column # "" THEN "attribute"
    ELSE IF hcl THEN "fuzzy" ELSE "random"

\* keyword arguments of lines 108-111
AttributeParams(opts) ==
    [referencemap |-> opts.referencemap, map |-> opts.map,
     color_column |-> opts.color_column, class_column |-> opts.class_column]

\* lines 104-112
AttributeColorStrategy ==
    /\ pc = "select"
    /\ Strategy(options.color_column, has_cat_label) = "attribute"
    /\ msgs' = Append(msgs, Msg("message", "Using colors from column",
                                <<options.color_column>>))
    /\ calls' = Append(calls, Call("v.colors.to.rast", "run",
                                   AttributeParams(options)))
    /\ colorTable' = [by |-> "attribute", rules |-> <<>>]
    /\ pc' = "done"
    /\ outcome' = "ok"
    /\ UNCHANGED <<options, raster, catLabels, found1, found2,
                   map_class_labels, has_cat_label, random_colors, cellvals,
                   colors_str, mapinfo, category_text, bc, cat_proc, replies>>

\* lines 113-115
FuzzyMatchStrategy ==
    /\ pc = "select"
    /\ Strategy(options.color_column, has_cat_label) = "fuzzy"
    /\ msgs' = Append(msgs, Msg("message", "Matching land cover classes", <<>>))
    /\ calls' = Append(calls, Call("r.colors.fuzzy_lc", "run",
                                   [map |-> options.map]))
    /\ colorTable' = [by |-> "fuzzy", rules |-> <<>>]
    /\ pc' = "done"
    /\ outcome' = "ok"
    /\ UNCHANGED <<options, raster, catLabels, found1, found2,
                   map_class_labels, has_cat_label, random_colors, cellvals,
                   colors_str, mapinfo, category_text, bc, cat_proc, replies>>

\* ---------------------------------------------------- random colour strategy
\* randrange(255) for draw k of the generator seeded with seed
RandRange(seed, k) == (seed * 89 + k * 37 + (k \div 3) * 11) % RandLimit

\* "{}:{}:{}".format(randrange(255), randrange(255), randrange(255))
ColorText(seed, i) ==
    Str(RandRange(seed, 3 * i)) \o <<":">> \o Str(RandRange(seed, 3 * i + 1))
    \o <<":">> \o Str(RandRange(seed, 3 * i + 2))

\* lines 123-128
GeneratePool(seed) == [i \in 1..colors_to_generate |-> ColorText(seed, i - 1)]

\* lines 116-128
RandomColors ==
    /\ pc = "select"
    /\ Strategy(options.color_column, has_cat_label) = "random"
    /\ msgs' = Append(msgs, Msg("warning", "missing category labels", <<>>))
    /\ \E seed \in 0..(NumSeeds - 1) : random_colors' = GeneratePool(seed)
    /\ pc' = "stats1"
    /\ UNCHANGED <<options, raster, colorTable, catLabels, outcome, found1,
                   found2, map_class_labels, has_cat_label, cellvals,
                   colors_str, mapinfo, category_text, bc, cat_proc, calls,
                   replies>>

\* line 133: [line.split("|")[0] for line in cellstats.splitlines()]
CellVals(cellstats) ==
    LET lines == SplitLines(cellstats)
    IN  [i \in 1..Len(lines) |-> SplitFirst(lines[i], "|")]

StatsParams(opts) == [input |-> opts.map, separator |-> "pipe", flags |-> "cn"]

NeedsFallbackGeq(vals, pool) == Len(vals) >= Len(pool)
\* line 135
NeedsFallback(vals, pool) == Len(vals) > Len(pool)

\* lines 130-135
ReadStats1 ==
    /\ pc = "stats1"
    /\ \E ord \in Orders :
         LET reply == Ordered(raster.vals, ord)
             vals == CellVals(StatsText(raster.datatype, reply))
         IN  /\ replies' = Append(replies, reply)
             /\ cellvals' = vals
             /\ pc' = IF NeedsFallback(vals, random_colors)
                      THEN "fallback" ELSE "feedbc"
    /\ calls' = Append(calls, Call("r.stats", "read", StatsParams(options)))
    /\ UNCHANGED <<options, raster, colorTable, catLabels, outcome, found1,
                   found2, map_class_labels, has_cat_label, random_colors,
                   colors_str, mapinfo, category_text, bc, cat_proc, msgs>>

\* lines 136-142
Fallback ==
    /\ pc = "fallback"
    /\ calls' = Append(calls, Call("r.colors", "run",
                                   [map |-> options.map, color |-> "random"]))
    /\ colorTable' = [by |-> "random", rules |-> <<>>]
    /\ msgs' = Append(msgs, Msg("warning", "More cells values than",
                                Str(Len(random_colors))))
    /\ pc' = "feedbc"
    /\ UNCHANGED <<options, raster, catLabels, outcome, found1, found2,
                   map_class_labels, has_cat_label, random_colors, cellvals,
                   colors_str, mapinfo, category_text, bc, cat_proc, replies>>

ColorsStrShifted(vals, pool) ==
    LET cut == SubSeq(pool, 2, Min(Len(vals) + 1, Len(pool)))
    IN  [i \in 1..Min(Len(vals), Len(cut)) |-> vals[i] \o <<" ">> \o cut[i]]
\* lines 143-146
ColorsStr(vals, pool) ==
    LET cut == Slice(pool, Len(vals))
    IN  [i \in 1..Min(Len(vals), Len(cut)) |-> vals[i] \o <<" ">> \o cut[i]]

\* lines 143-147
FeedColors ==
    /\ pc = "feedbc"
    /\ colors_str' = ColorsStr(cellvals, random_colors)
    /\ bc' = [bc EXCEPT !.state = "open"]
    /\ calls' = Append(calls, Call("r.colors", "feed",
                                   [map |-> options.map, rules |-> "-"]))
    /\ pc' = "writebc"
    /\ UNCHANGED <<options, raster, colorTable, catLabels, outcome, found1,
                   found2, map_class_labels, has_cat_label, random_colors,
                   cellvals, mapinfo, category_text, cat_proc, msgs, replies>>

\* line 148
WriteColors ==
    /\ pc = "writebc"
    /\ bc' = [bc EXCEPT !.stdin = bc.stdin \o Join(colors_str, <<"\n">>)]
    /\ calls' = Append(calls, Call("r.colors", "write", [stream |-> "stdin"]))
    /\ pc' = "closebc"
    /\ UNCHANGED <<options, raster, colorTable, catLabels, outcome, found1,
                   found2, map_class_labels, has_cat_label, random_colors,
                   cellvals, colors_str, mapinfo, category_text, cat_proc,
                   msgs, replies>>

\* line 149
CloseColors ==
    /\ pc = "closebc"
    /\ bc' = [bc EXCEPT !.state = "closed"]
    /\ calls' = Append(calls, Call("r.colors", "close", [stream |-> "stdin"]))
    /\ pc' = "waitbc"
    /\ UNCHANGED <<options, raster, colorTable, catLabels, outcome, found1,
                   found2, map_class_labels, has_cat_label, random_colors,
                   cellvals, colors_str, mapinfo, category_text, cat_proc,
                   msgs, replies>>

\* exit statuses of a child that has read text as its rules: with no rule at
\* all it may reject its input; main never reads the status (lines 150, 169)
ExitCodes(text) == IF text = <<>> THEN {0, 1} ELSE {0}

\* the r.colors child started at line 147: it reads its rules up to end of
\* file, replaces the colour table of the map and exits
BcExit ==
    /\ bc.state = "closed"
    /\ \E rc \in ExitCodes(bc.stdin) :
         /\ bc' = [bc EXCEPT !.state = "exited", !.rc = rc]
         /\ colorTable' = IF rc = 0
                          THEN [by |-> "rules", rules |-> SplitLines(bc.stdin)]
                          ELSE colorTable
    /\ UNCHANGED <<options, raster, catLabels, pc, outcome, found1, found2,
                   map_class_labels, has_cat_label, random_colors, cellvals,
                   colors_str, mapinfo, category_text, cat_proc, calls, msgs,
                   replies>>

WaitReturnsAtOnce(proc) == TRUE
\* Popen.wait() of lines 150 and 169 returns once the child has exited
WaitReturns(proc) == proc.state = "exited"

\* line 150
WaitColors ==
    /\ pc = "waitbc"
    /\ WaitReturns(bc)
    /\ calls' = Append(calls, Call("r.colors", "wait", [stream |-> "stdin"]))
    /\ pc' = "info"
    /\ UNCHANGED <<options, raster, colorTable, catLabels, outcome, found1,
                   found2, map_class_labels, has_cat_label, random_colors,
                   cellvals, colors_str, mapinfo, category_text, bc, cat_proc,
                   msgs, replies>>

\* ------------------------------------------------------------ label back-fill
\* line 154
IsCell(datatype) == datatype = "CELL"

\* lines 153-154
RasterInfo ==
    /\ pc = "info"
    /\ calls' = Append(calls, Call("r.info", "info", [map |-> options.map]))
    /\ mapinfo' = raster.datatype
    /\ IF IsCell(raster.datatype)
       THEN pc' = "stats2" /\ UNCHANGED outcome
       ELSE pc' = "done" /\ outcome' = "ok"
    /\ UNCHANGED <<options, raster, colorTable, catLabels, found1, found2,
                   map_class_labels, has_cat_label, random_colors, cellvals,
                   colors_str, category_text, bc, cat_proc, msgs, replies>>

RECURSIVE CategoryTextOf(_)
\* the lines "%s|%s\n" % (val, val) of a list of values
CategoryTextOf(vals) ==
    IF vals = <<>> THEN <<>>
    ELSE vals[1] \o <<"|">> \o vals[1] \o <<"\n">> \o CategoryTextOf(Tail(vals))

CategoryTextPool(cellstats) ==
    CategoryTextOf(Slice(CellVals(cellstats), colors_to_generate))
\* lines 158-161
CategoryText(cellstats) == CategoryTextOf(CellVals(cellstats))

\* lines 155-161
ReadStats2 ==
    /\ pc = "stats2"
    /\ \E ord \in Orders :
         LET reply == Ordered(raster.vals, ord)
         IN  /\ replies' = Append(replies, reply)
             /\ category_text' = CategoryText(StatsText(raster.datatype, reply))
    /\ calls' = Append(calls, Call("r.stats", "read", StatsParams(options)))
    /\ pc' = "feedcat"
    /\ UNCHANGED <<options, raster, colorTable, catLabels, outcome, found1,
                   found2, map_class_labels, has_cat_label, random_colors,
                   cellvals, colors_str, mapinfo, bc, cat_proc, msgs>>

\* lines 163-165
FeedCat ==
    /\ pc = "feedcat"
    /\ cat_proc' = [cat_proc EXCEPT !.state = "open"]
    /\ calls' = Append(calls, Call("r.category", "feed",
                          [map |-> options.map, rules |-> "-",
                           separator |-> "pipe"]))
    /\ pc' = "writecat"
    /\ UNCHANGED <<options, raster, colorTable, catLabels, outcome, found1,
                   found2, map_class_labels, has_cat_label, random_colors,
                   cellvals, colors_str, mapinfo, category_text, bc, msgs,
                   replies>>

\* line 166
WriteCat ==
    /\ pc = "writecat"
    /\ cat_proc' = [cat_proc EXCEPT !.stdin = cat_proc.stdin \o category_text]
    /\ calls' = Append(calls, Call("r.category", "write", [stream |-> "stdin"]))
    /\ pc' = "closecat"
    /\ UNCHANGED <<options, raster, colorTable, catLabels, outcome, found1,
                   found2, map_class_labels, has_cat_label, random_colors,
                   cellvals, colors_str, mapinfo, category_text, bc, msgs,
                   replies>>

\* line 167
CloseCat ==
    /\ pc = "closecat"
    /\ cat_proc' = [cat_proc EXCEPT !.state = "closed"]
    /\ calls' = Append(calls, Call("r.category", "close", [stream |-> "stdin"]))
    /\ pc' = "waitcat"
    /\ UNCHANGED <<options, raster, colorTable, catLabels, outcome, found1,
                   found2, map_class_labels, has_cat_label, random_colors,
                   cellvals, colors_str, mapinfo, category_text, bc, msgs,
                   replies>>

\* a label rule "value|label" as r.category lists it afterwards
LabelEntry(rule) ==
    LET i == IndexOf(rule, "|")
    IN  IF i = 0 THEN rule
        ELSE SubSeq(rule, 1, i - 1) \o <<"\t">> \o SubSeq(rule, i + 1, Len(rule))

\* the r.category child started at line 163: it reads its rules up to end of
\* file, sets the category labels of the map and exits
CatExit ==
    /\ cat_proc.state = "closed"
    /\ \E rc \in ExitCodes(cat_proc.stdin) :
         /\ cat_proc' = [cat_proc EXCEPT !.state = "exited", !.rc = rc]
         /\ catLabels' = IF rc = 0
                         THEN LET rules == SplitLines(cat_proc.stdin)
                              IN  [i \in 1..Len(rules) |-> LabelEntry(rules[i])]
                         ELSE catLabels
    /\ UNCHANGED <<options, raster, colorTable, pc, outcome, found1, found2,
                   map_class_labels, has_cat_label, random_colors, cellvals,
                   colors_str, mapinfo, category_text, bc, calls, msgs,
                   replies>>

\* line 169
WaitCat ==
    /\ pc = "waitcat"
    /\ WaitReturns(cat_proc)
    /\ calls' = Append(calls, Call("r.category", "wait", [stream |-> "stdin"]))
    /\ pc' = "done"
    /\ outcome' = "ok"
    /\ UNCHANGED <<options, raster, colorTable, catLabels, found1, found2,
                   map_class_labels, has_cat_label, random_colors, cellvals,
                   colors_str, mapinfo, category_text, bc, cat_proc, msgs,
                   replies>>

\* --------------------------------------------------------------- the program
Next ==
    \/ FindVColorsToRast
    \/ FindFuzzyLc
    \/ ParseCategory
    \/ AttributeColorStrategy
    \/ FuzzyMatchStrategy
    \/ RandomColors
    \/ ReadStats1
    \/ Fallback
    \/ FeedColors
    \/ WriteColors
    \/ CloseColors
    \/ BcExit
    \/ WaitColors
    \/ RasterInfo
    \/ ReadStats2
    \/ FeedCat
    \/ WriteCat
    \/ CloseCat
    \/ CatExit
    \/ WaitCat

Spec == Init /\ [][Next]_vars

\* ------------------------------------------------------ vocabulary of claims
CallsOf(prog, op) == {i \in DOMAIN calls : calls[i].prog = prog /\ calls[i].op = op}
CountCalls(prog, op) == Cardinality(CallsOf(prog, op))

\* no step of the random colour strategy has been executed
NoRandomStep ==
    /\ \A i \in DOMAIN calls :
         /\ calls[i].prog \notin {"r.stats", "r.colors", "r.info"}
         /\ calls[i].prog = "r.category" => calls[i].op = "parse"
    /\ bc = NoProc
    /\ cat_proc = NoProc
    /\ random_colors = <<>>

ProbesOk == found1 = "yes" /\ found2 = "yes"
Finished == pc = "done" /\ ProbesOk
\* the category listing has been read
Inspected == CountCalls("r.category", "parse") = 1
\* the random colour strategy has queried the statistics
InRandom == replies # <<>>
\* number of distinct cell values of the raster
N == Len(raster.vals)

\* an entry with a separator followed by a non-empty label
HasLabel(entry) == \E k \in 1..(Len(entry) - 1) : entry[k] = "\t"
AllLabelled(listing) == \A i \in DOMAIN listing : HasLabel(listing[i])
SomeUnlabelled(listing) == \E i \in DOMAIN listing : "\t" \notin {listing[i][k] : k \in DOMAIN listing[i]}

Warned(text) == \E i \in DOMAIN msgs : msgs[i].level = "warning" /\ msgs[i].text = text

\* the operations main has made on a feed process, in order
ProcOps(prog) ==
    LET F[i \in 0..Len(calls)] ==
          IF i = 0 THEN <<>>
          ELSE IF calls[i].prog = prog
                  /\ calls[i].op \in {"feed", "write", "close", "wait"}
               THEN Append(F[i - 1], calls[i].op) ELSE F[i - 1]
    IN  F[Len(calls)]

\* the statistics queries after the first one
LaterStats ==
    LET reads == CallsOf("r.stats", "read")
    IN  {i \in reads : \E k \in reads : k < i}

IsPrefix(s, t) == Len(s) <= Len(t) /\ s = SubSeq(t, 1, Len(s))

RECURSIVE ParseNat(_)
\* the number a string of digits denotes
ParseNat(s) ==
    IF s = <<>> THEN 0
    ELSE 10 * ParseNat(SubSeq(s, 1, Len(s) - 1))
         + (CHOOSE d \in 0..9 : Digits[d + 1] = s[Len(s)])

IsNumeral(s) ==
    /\ s # <<>>
    /\ \A k \in DOMAIN s : \E d \in 1..10 : Digits[d] = s[k]

\* s reads R:G:B with three channel numbers below 255
IsRGB(s) ==
    LET i == IndexOf(s, ":")
        rest == SubSeq(s, i + 1, Len(s))
        j == IndexOf(rest, ":")
        r == SubSeq(s, 1, i - 1)
        g == SubSeq(rest, 1, j - 1)
        b == SubSeq(rest, j + 1, Len(rest))
    IN  /\ i > 0 /\ j > 0
        /\ IsNumeral(r) /\ IsNumeral(g) /\ IsNumeral(b)
        /\ ParseNat(r) \in 0..254 /\ ParseNat(g) \in 0..254
        /\ ParseNat(b) \in 0..254

\* ------------------------------------------------------------------- claims
\* C1: with both probes succeeding and a color_column, the attribute-color
\* service runs exactly once with referencemap, map, color_column and
\* class_column as supplied, whatever the labels are, and neither the fuzzy
\* service nor any step of the random strategy is executed.
C1_AttributeColor ==
    options.color_column # "" =>
      /\ CountCalls("r.colors.fuzzy_lc", "run") = 0
      /\ NoRandomStep
      /\ Finished =>
           /\ CountCalls("v.colors.to.rast", "run") = 1
           /\ \A i \in CallsOf("v.colors.to.rast", "run") :
                /\ calls[i].params.referencemap = options.referencemap
                /\ calls[i].params.map = options.map
                /\ calls[i].params.color_column = options.color_column
                /\ calls[i].params.class_column = options.class_column
                /\ DOMAIN calls[i].params =
                     {"referencemap", "map", "color_column", "class_column"}

C1_Witness ==
    /\ Finished
    /\ options.color_column = "col"
    /\ AllLabelled(raster.cats) /\ raster.cats # <<>>
    /\ CountCalls("v.colors.to.rast", "run") = 1

\* C2: with both probes succeeding, no color_column and every category entry
\* labelled, the fuzzy-matching service runs exactly once with the map as its
\* only argument, and neither the attribute-color service nor any step of the
\* random strategy is executed.
C2_FuzzyMatch ==
    (options.color_column = "" /\ AllLabelled(raster.cats)) =>
      /\ CountCalls("v.colors.to.rast", "run") = 0
      /\ NoRandomStep
      /\ Finished =>
           /\ CountCalls("r.colors.fuzzy_lc", "run") = 1
           /\ \A i \in CallsOf("r.colors.fuzzy_lc", "run") :
                calls[i].params = [map |-> options.map]

C2_Witness ==
    /\ Finished
    /\ options.color_column = ""
    /\ Len(raster.cats) >= 2 /\ AllLabelled(raster.cats)
    /\ CountCalls("r.colors.fuzzy_lc", "run") = 1

\* C3: a listing with at least one entry without separator gives
\* has_cat_label = FALSE wherever that entry sits; with no color_column the
\* random strategy is then selected, the missing-labels warning is emitted and
\* the fuzzy service is not invoked.
C3_AllOrNothing ==
    (Inspected /\ SomeUnlabelled(raster.cats)) =>
      /\ has_cat_label = FALSE
      /\ options.color_column = "" =>
           /\ CountCalls("r.colors.fuzzy_lc", "run") = 0
           /\ pc \notin {"select"} =>
                /\ Warned("missing category labels")
                /\ Len(random_colors) = 40
           /\ pc = "done" => InRandom

C3_Witness ==
    /\ Finished
    /\ options.color_column = ""
    /\ Len(raster.cats) = 2
    /\ ~HasLabel(raster.cats[1]) /\ HasLabel(raster.cats[2])
    /\ Warned("missing category labels")
    /\ InRandom

\* C4: with 0 <= N <= 40 distinct values the random strategy submits exactly N
\* rule lines "value R:G:B" to the color-table writer, line i pairing the i-th
\* value returned by the statistics source with the i-th pool color; for
\* N = 0 the write still happens, with no rule, and main ends without error.
C4_RulesWithinPool ==
    (InRandom /\ N <= 40) =>
      /\ CountCalls("r.colors", "write") <= 1
      /\ CountCalls("r.colors", "write") = 1 =>
           LET lines == SplitLines(bc.stdin)
           IN  /\ Len(lines) = N
               /\ \A i \in 1..N :
                    /\ lines[i] = ValStr(raster.datatype, replies[1][i])
                                  \o <<" ">> \o random_colors[i]
                    /\ IsRGB(random_colors[i])
               /\ N = 0 => bc.stdin = <<>>
      /\ pc = "done" =>
           /\ outcome = "ok"
           /\ ProcOps("r.colors") = <<"feed", "write", "close", "wait">>

C4_Witness ==
    /\ pc = "done"
    /\ InRandom
    /\ N = 40
    /\ replies[1] = Reverse(raster.vals)
    /\ Len(SplitLines(bc.stdin)) = 40

\* the empty raster: the write happened with an empty rule set
C4_WitnessEmpty ==
    /\ pc = "done"
    /\ InRandom
    /\ N = 0
    /\ bc.state = "exited" /\ bc.stdin = <<>> /\ bc.rc = 1
    /\ outcome = "ok"

\* C5: with N > 40 distinct values the random strategy submits no rule line
\* built from the pool to the color-table writer, and the color table at the
\* end of the run is the one the uniform-random fallback assigned.
C5_NoTableAbovePool ==
    (InRandom /\ N > 40) =>
      /\ bc.stdin = <<>>
      /\ pc = "done" => colorTable.by = "random"

\* C6: within the random strategy the fallback r.colors color=random runs if
\* and only if N > 40; it then runs exactly once, together with a warning
\* naming 40; with N <= 40 neither the fallback nor the warning occurs.
C6_FallbackIffAbovePool ==
    /\ CountCalls("r.colors", "run") <= 1
    /\ CountCalls("r.colors", "run") = 1 <=> Warned("More cells values than")
    /\ \A i \in DOMAIN msgs :
         msgs[i].text = "More cells values than" => msgs[i].arg = <<"4", "0">>
    /\ \A i \in CallsOf("r.colors", "run") :
         calls[i].params = [map |-> options.map, color |-> "random"]
    /\ CountCalls("r.colors", "run") = 1 => (InRandom /\ N > 40)
    /\ (InRandom /\ N > 40 /\ pc \notin {"fallback"}) =>
         CountCalls("r.colors", "run") = 1

C6_Witness ==
    /\ pc = "done"
    /\ InRandom
    /\ N = 41
    /\ CountCalls("r.colors", "run") = 1
    /\ Warned("More cells values than")

\* C7: a run of the random strategy on a CELL raster makes exactly one label
\* write, holding the line "value|value" for every value of a second
\* statistics query made after the color step, in both branches of the color
\* step; on FCELL and DCELL rasters there is no label write and no second
\* statistics query.
C7_LabelBackfill ==
    (InRandom /\ pc = "done") =>
      IF raster.datatype = "CELL"
      THEN /\ CountCalls("r.stats", "read") = 2
           /\ ProcOps("r.category") = <<"feed", "write", "close", "wait">>
           /\ \A i \in LaterStats :
                \E j \in CallsOf("r.colors", "wait") : j < i
           /\ LET lines == SplitLines(cat_proc.stdin)
              IN  /\ Len(lines) = N
                  /\ \A i \in 1..N :
                       lines[i] = Str(replies[2][i]) \o <<"|">>
                                  \o Str(replies[2][i])
      ELSE /\ CountCalls("r.stats", "read") = 1
           /\ ProcOps("r.category") = <<>>
           /\ cat_proc = NoProc

C7_Witness ==
    /\ pc = "done"
    /\ InRandom
    /\ raster.datatype = "CELL"
    /\ N = 42
    /\ replies[2] # replies[1]
    /\ Len(SplitLines(cat_proc.stdin)) = 42
    /\ CountCalls("r.colors", "run") = 1

\* C8: when a probe reports its service missing, main ends fatally and has
\* made no call but the probes: no category, statistics or raster-info query,
\* no color-table or label write, no strategy.
C8_FailFast ==
    (found1 = "no" \/ found2 = "no") =>
      /\ pc = "done"
      /\ outcome = "fatal"
      /\ \A i \in DOMAIN calls : calls[i].op = "find"
      /\ NoRandomStep
      /\ colorTable.by = "none"
      /\ catLabels = raster.cats

C8_Witness ==
    /\ found1 = "yes"
    /\ found2 = "no"
    /\ options.color_column = ""
    /\ SomeUnlabelled(raster.cats)
    /\ outcome = "fatal"

\* C9: each streaming write goes feed, write, close, wait, and nothing later
\* starts before the wait has returned: the raster-info query and the second
\* statistics query come after the color-table writer (and the fallback, when
\* it ran) has completed, and main does not return before the label writer
\* has completed.
C9_WriteCloseWait ==
    /\ IsPrefix(ProcOps("r.colors"), <<"feed", "write", "close", "wait">>)
    /\ IsPrefix(ProcOps("r.category"), <<"feed", "write", "close", "wait">>)
    /\ CountCalls("r.colors", "wait") = 1 => bc.state = "exited"
    /\ CountCalls("r.category", "wait") = 1 => cat_proc.state = "exited"
    /\ \A i \in DOMAIN calls :
         (calls[i].prog = "r.info" \/ i \in LaterStats) =>
           /\ bc.state = "exited"
           /\ \E j \in CallsOf("r.colors", "wait") : j < i
           /\ \A j \in CallsOf("r.colors", "run") : j < i
    /\ \A i \in CallsOf("r.colors", "feed") :
         \A j \in CallsOf("r.colors", "run") : j < i
    /\ (pc = "done" /\ cat_proc.state # "none") => cat_proc.state = "exited"
    /\ (pc = "done" /\ bc.state # "none") => bc.state = "exited"

C9_Witness ==
    /\ pc = "done"
    /\ cat_proc.state = "exited"
    /\ bc.state = "exited"
    /\ CountCalls("r.colors", "run") = 1
    /\ CountCalls("r.info", "info") = 1

\* C10: with an empty category listing and no color_column, has_cat_label
\* stays TRUE, so the fuzzy strategy is selected and the random strategy does
\* not run.
C10_EmptyListing ==
    (Inspected /\ raster.cats = <<>>) =>
      /\ has_cat_label = TRUE
      /\ options.color_column = "" =>
           /\ NoRandomStep
           /\ pc = "done" => CountCalls("r.colors.fuzzy_lc", "run") = 1

C10_Witness ==
    /\ Finished
    /\ raster.cats = <<>>
    /\ options.color_column = ""
    /\ CountCalls("r.colors.fuzzy_lc", "run") = 1
    /\ colorTable.by = "fuzzy"

====
